---- MODULE Spec2Model ----
(***************************************************************************)
(* SEARCH/REPLACE patch engine of y-server (src/src/utils/e2b_utils.ts:     *)
(* trimMatch, normalizeNewlines, applyDiff) and its caller replaceInS3File  *)
(* (src/unnamed/part_010).                                                  *)
(*                                                                         *)
(* Strings are sequences of one-character strings; character offsets are   *)
(* 0-based as in JavaScript, sequence positions are 1-based.                *)
(***************************************************************************)
EXTENDS Integers, Sequences, FiniteSets, TLC

(***************************************************************************)
(* Characters and the three sentinel lines.                                *)
(***************************************************************************)
NL == "\n"
BS == "\\"
Whitespace == {" ", "\t", "\r"}

SEARCH_START == <<"<", "<", "<", "<", "<", "<", "<", " ", "S", "E", "A", "R", "C", "H">>
SEPARATOR == <<"=", "=", "=", "=", "=", "=", "=">>
REPLACE_END == <<">", ">", ">", ">", ">", ">", ">", " ", "R", "E", "P", "L", "A", "C", "E">>

(***************************************************************************)
(* JavaScript string primitives used by the engine.                        *)
(***************************************************************************)
Min(a, b) == IF a < b THEN a ELSE b
Max(a, b) == IF a > b THEN a ELSE b

\* String.prototype.slice(from, to): negative offsets count from the end,
\* offsets past the end are clamped, an inverted range is empty.
Slice(s, from, to) ==
    LET n == Len(s)
        f == IF from < 0 THEN Max(n + from, 0) ELSE Min(from, n)
        t == IF to < 0 THEN Max(n + to, 0) ELSE Min(to, n)
    IN  IF t <= f THEN <<>> ELSE SubSeq(s, f + 1, t)

\* String.prototype.slice(from)
SliceFrom(s, from) == Slice(s, from, Len(s))

\* the highest offset at which sub occurs is returned, not the lowest
IndexOfLast(s, sub, from) ==
    LET first == Min(Max(from, 0), Len(s))
        hits == {i \in first .. Len(s) - Len(sub) : SubSeq(s, i + 1, i + Len(sub)) = sub}
    IN  IF hits = {} THEN -1 ELSE CHOOSE i \in hits : \A j \in hits : i >= j

\* String.prototype.indexOf(sub, from): the lowest offset >= from at which
\* sub occurs, or -1; from is clamped to [0, length].
IndexOf(s, sub, from) ==
    LET first == Min(Max(from, 0), Len(s))
        hits == {i \in first .. Len(s) - Len(sub) : SubSeq(s, i + 1, i + Len(sub)) = sub}
    IN  IF hits = {} THEN -1 ELSE CHOOSE i \in hits : \A j \in hits : i <= j

\* String.prototype.split("\n"): the pieces between consecutive line breaks;
\* the empty string splits into one empty line.
Split(s) ==
    LET breaks == {i \in 1 .. Len(s) : s[i] = NL}
        count == Cardinality(breaks)
        brk(j) == IF j = 0 THEN 0
                  ELSE IF j = count + 1 THEN Len(s) + 1
                  ELSE CHOOSE p \in breaks : Cardinality({q \in breaks : q < p}) = j - 1
    IN  [j \in 1 .. count + 1 |-> SubSeq(s, brk(j - 1) + 1, brk(j) - 1)]

RECURSIVE TrimStart(_)
TrimStart(s) ==
    IF s # <<>> /\ s[1] \in Whitespace THEN TrimStart(Tail(s)) ELSE s

RECURSIVE TrimEnd(_)
TrimEnd(s) ==
    IF s # <<>> /\ s[Len(s)] \in Whitespace
    THEN TrimEnd(SubSeq(s, 1, Len(s) - 1)) ELSE s

\* String.prototype.trim()
Trim(s) == TrimEnd(TrimStart(s))

RECURSIVE Flatten(_)
Flatten(ss) == IF ss = <<>> THEN <<>> ELSE Head(ss) \o Flatten(Tail(ss))


(***************************************************************************)
(* normalizeNewlines: content.replace(/\\n/g, "\n") -- every two-character *)
(* sequence backslash, n becomes one line break, scanning left to right.   *)
(***************************************************************************)
Dropped == "dropped"
Kept(c) == c # Dropped

\* escapes are left as they are
normalizeNewlinesNone(content) == content

normalizeNewlines(content) ==
    LET escapeAt(i) == i >= 1 /\ i < Len(content) /\ content[i] = BS /\ content[i + 1] = "n"
        marked == [i \in 1 .. Len(content) |->
                     IF escapeAt(i) THEN NL
                     ELSE IF escapeAt(i - 1) THEN Dropped
                     ELSE content[i]]
    IN  SelectSeq(marked, Kept)

(***************************************************************************)
(* trimMatch: the line-trimmed fallback.  A match result is a record       *)
(* [found, start, end]; the code's `false` is NoMatch.                      *)
(***************************************************************************)
NoMatch == [found |-> FALSE, start |-> -1, end |-> -1]

\* searchLines after "Remove empty trailing line if it exists"
SearchLines(search) ==
    LET sl == Split(search)
    IN  IF sl[Len(sl)] = <<>> THEN SubSeq(sl, 1, Len(sl) - 1) ELSE sl

\* the while loop that converts the character cursor into a line number
RECURSIVE StartLineNum(_, _, _, _)
StartLineNum(originalLines, startIdx, startLineNum, currentIndex) ==
    IF currentIndex < startIdx /\ startLineNum < Len(originalLines)
    THEN StartLineNum(originalLines, startIdx, startLineNum + 1,
                      currentIndex + Len(originalLines[startLineNum + 1]) + 1)
    ELSE startLineNum

\* the lines are compared as they are, without trimming
LinesMatchUntrimmed(originalLines, searchLines, i) ==
    \A j \in 0 .. Len(searchLines) - 1 :
        originalLines[i + j + 1] = searchLines[j + 1]

\* the inner for loop: all search lines agree with the candidate's lines
\* after trimming (i is the 0-based candidate line)
LinesMatch(originalLines, searchLines, i) ==
    \A j \in 0 .. Len(searchLines) - 1 :
        Trim(originalLines[i + j + 1]) = Trim(searchLines[j + 1])

\* the outer for loop: the first candidate line that matches, or -1
RECURSIVE FirstCandidate(_, _, _)
FirstCandidate(originalLines, searchLines, i) ==
    IF i > Len(originalLines) - Len(searchLines) THEN -1
    ELSE IF LinesMatch(originalLines, searchLines, i) THEN i
    ELSE FirstCandidate(originalLines, searchLines, i + 1)

\* the line breaks are not counted
RECURSIVE LineSpanNoBreak(_, _, _)
LineSpanNoBreak(originalLines, from, count) ==
    IF count = 0 THEN 0
    ELSE Len(originalLines[from + 1]) + LineSpanNoBreak(originalLines, from + 1, count - 1)

\* sum of (length + 1) over count lines starting at 0-based line from
RECURSIVE LineSpan(_, _, _)
LineSpan(originalLines, from, count) ==
    IF count = 0 THEN 0
    ELSE Len(originalLines[from + 1]) + 1 + LineSpan(originalLines, from + 1, count - 1)

trimMatch(original, search, startIdx) ==
    LET originalLines == Split(original)
        searchLines == SearchLines(search)
        startLineNum == StartLineNum(originalLines, startIdx, 0, 0)
        i == FirstCandidate(originalLines, searchLines, startLineNum)
    IN  IF i = -1 THEN NoMatch
        ELSE LET matchStartIndex == LineSpan(originalLines, 0, i)
                 matchEndIndex == matchStartIndex + LineSpan(originalLines, i, Len(searchLines))
             IN  [found |-> TRUE, start |-> matchStartIndex, end |-> matchEndIndex]

(***************************************************************************)
(* applyDiff, one patch line at a time.  The locals of one call are the    *)
(* record [result, lastIdx, searchContent, inSearch, inReplace,            *)
(* matchStartIdx, matchEndIdx, threw].                                      *)
(***************************************************************************)
InitLocals ==
    [result |-> <<>>, lastIdx |-> 0, searchContent |-> <<>>,
     inSearch |-> FALSE, inReplace |-> FALSE,
     matchStartIdx |-> -1, matchEndIdx |-> -1, threw |-> FALSE]

\* both searches start at the beginning of the document, not at the cursor
ResolveMatchFromStart(original, searchContent, lastIdx) ==
    IF searchContent = <<>>
    THEN [found |-> TRUE, start |-> 0, end |-> Len(original)]
    ELSE LET exactIndex == IndexOf(original, searchContent, 0)
         IN  IF exactIndex # -1
             THEN [found |-> TRUE, start |-> exactIndex,
                   end |-> exactIndex + Len(searchContent)]
             ELSE trimMatch(original, searchContent, 0)

\* the trimmed comparison is tried before the exact search
ResolveMatchTrimFirst(original, searchContent, lastIdx) ==
    IF searchContent = <<>>
    THEN [found |-> TRUE, start |-> 0, end |-> Len(original)]
    ELSE LET m == trimMatch(original, searchContent, lastIdx)
             exactIndex == IndexOf(original, searchContent, lastIdx)
         IN  IF m.found THEN m
             ELSE IF exactIndex # -1
             THEN [found |-> TRUE, start |-> exactIndex,
                   end |-> exactIndex + Len(searchContent)]
             ELSE NoMatch

\* an empty search block resolves to an insertion point at offset 0
ResolveMatchEmptyAtStart(original, searchContent, lastIdx) ==
    IF searchContent = <<>>
    THEN [found |-> TRUE, start |-> 0, end |-> 0]
    ELSE LET exactIndex == IndexOf(original, searchContent, lastIdx)
         IN  IF exactIndex # -1
             THEN [found |-> TRUE, start |-> exactIndex,
                   end |-> exactIndex + Len(searchContent)]
             ELSE trimMatch(original, searchContent, lastIdx)

\* an empty search block resolves from the cursor to the document end
ResolveMatchEmptyFromCursor(original, searchContent, lastIdx) ==
    IF searchContent = <<>>
    THEN [found |-> TRUE, start |-> Min(Max(lastIdx, 0), Len(original)), end |-> Len(original)]
    ELSE LET exactIndex == IndexOf(original, searchContent, lastIdx)
         IN  IF exactIndex # -1
             THEN [found |-> TRUE, start |-> exactIndex,
                   end |-> exactIndex + Len(searchContent)]
             ELSE trimMatch(original, searchContent, lastIdx)

\* the range of an exact match stops before the block's last line break
ResolveMatchEndBeforeBreak(original, searchContent, lastIdx) ==
    IF searchContent = <<>>
    THEN [found |-> TRUE, start |-> 0,
          end |-> IF Len(original) = 0 THEN 0 ELSE Len(original)]
    ELSE LET exactIndex == IndexOf(original, searchContent, lastIdx)
         IN  IF exactIndex # -1
             THEN [found |-> TRUE, start |-> exactIndex,
                   end |-> exactIndex + Len(searchContent) - 1]
             ELSE trimMatch(original, searchContent, lastIdx)

\* "Handle search block": empty search, exact match, then trimmed match
ResolveMatch(original, searchContent, lastIdx) ==
    IF searchContent = <<>>
    THEN [found |-> TRUE, start |-> 0,
          end |-> IF Len(original) = 0 THEN 0 ELSE Len(original)]
    ELSE LET exactIndex == IndexOf(original, searchContent, lastIdx)
         IN  IF exactIndex # -1
             THEN [found |-> TRUE, start |-> exactIndex,
                   end |-> exactIndex + Len(searchContent)]
             ELSE trimMatch(original, searchContent, lastIdx)

\* line === "<<<<<<< SEARCH"
OnSearchStart(st) == [st EXCEPT !.inSearch = TRUE, !.searchContent = <<>>]

\* an unmatched block is skipped silently instead of failing the call
OnSeparatorSilent(st, original) ==
    LET m == ResolveMatch(original, st.searchContent, st.lastIdx)
        entered == [st EXCEPT !.inSearch = FALSE, !.inReplace = TRUE]
    IN  IF ~m.found
        THEN entered
        ELSE [entered EXCEPT !.matchStartIdx = m.start,
                             !.matchEndIdx = m.end,
                             !.result = st.result \o Slice(original, st.lastIdx, m.start)]

\* an unmatched block is inserted at the cursor instead of failing the call
OnSeparatorInsertOnMiss(st, original) ==
    LET m == ResolveMatch(original, st.searchContent, st.lastIdx)
        entered == [st EXCEPT !.inSearch = FALSE, !.inReplace = TRUE]
    IN  IF ~m.found
        THEN [entered EXCEPT !.matchStartIdx = st.lastIdx, !.matchEndIdx = st.lastIdx]
        ELSE [entered EXCEPT !.matchStartIdx = m.start,
                             !.matchEndIdx = m.end,
                             !.result = st.result \o Slice(original, st.lastIdx, m.start)]

\* the buffer is rebuilt from the document up to the match, discarding what
\* earlier blocks emitted
OnSeparatorRebuilds(st, original) ==
    LET m == ResolveMatch(original, st.searchContent, st.lastIdx)
        entered == [st EXCEPT !.inSearch = FALSE, !.inReplace = TRUE]
    IN  IF ~m.found
        THEN [entered EXCEPT !.threw = TRUE]
        ELSE [entered EXCEPT !.matchStartIdx = m.start,
                             !.matchEndIdx = m.end,
                             !.result = Slice(original, 0, m.start)]

\* line === "=======": resolve, then copy everything up to the match
OnSeparator(st, original) ==
    LET m == ResolveMatch(original, st.searchContent, st.lastIdx)
        entered == [st EXCEPT !.inSearch = FALSE, !.inReplace = TRUE]
    IN  IF ~m.found
        THEN [entered EXCEPT !.threw = TRUE]
        ELSE [entered EXCEPT !.matchStartIdx = m.start,
                             !.matchEndIdx = m.end,
                             !.result = st.result \o Slice(original, st.lastIdx, m.start)]

\* the cursor is not advanced past the matched region
OnReplaceEndNoAdvance(st) ==
    [st EXCEPT !.inSearch = FALSE, !.inReplace = FALSE,
               !.searchContent = <<>>,
               !.matchStartIdx = -1, !.matchEndIdx = -1]

\* the REPLACE section is not left
OnReplaceEndStaysInReplace(st) ==
    [st EXCEPT !.lastIdx = st.matchEndIdx,
               !.inSearch = FALSE,
               !.searchContent = <<>>,
               !.matchStartIdx = -1, !.matchEndIdx = -1]

\* line === ">>>>>>> REPLACE"
OnReplaceEnd(st) ==
    [st EXCEPT !.lastIdx = st.matchEndIdx,
               !.inSearch = FALSE, !.inReplace = FALSE,
               !.searchContent = <<>>,
               !.matchStartIdx = -1, !.matchEndIdx = -1]

\* replacement lines are appended without their line break
OnContentNoBreak(st, line) ==
    IF st.inSearch
    THEN [st EXCEPT !.searchContent = st.searchContent \o line \o <<NL>>]
    ELSE IF st.inReplace /\ st.matchStartIdx # -1
         THEN [st EXCEPT !.result = st.result \o line]
         ELSE st

\* a line read outside any block is copied to the output
OnContentEmitsIdle(st, line) ==
    IF st.inSearch
    THEN [st EXCEPT !.searchContent = st.searchContent \o line \o <<NL>>]
    ELSE IF st.inReplace /\ st.matchStartIdx # -1
         THEN [st EXCEPT !.result = st.result \o line \o <<NL>>]
         ELSE IF ~st.inReplace /\ line # <<>>
              THEN [st EXCEPT !.result = st.result \o line \o <<NL>>]
              ELSE st

\* "Accumulate content"
OnContent(st, line) ==
    IF st.inSearch
    THEN [st EXCEPT !.searchContent = st.searchContent \o line \o <<NL>>]
    ELSE IF st.inReplace /\ st.matchStartIdx # -1
         THEN [st EXCEPT !.result = st.result \o line \o <<NL>>]
         ELSE st

IsSentinel(line) == line \in {SEARCH_START, SEPARATOR, REPLACE_END}

\* the body of the for loop
ProcessLine(st, original, line) ==
    IF line = SEARCH_START THEN OnSearchStart(st)
    ELSE IF line = SEPARATOR THEN OnSeparator(st, original)
    ELSE IF line = REPLACE_END THEN OnReplaceEnd(st)
    ELSE OnContent(st, line)

\* the content after the last match is never appended
FinalResultNoTail(st, original, final) == st.result

\* "If this is the final chunk, append any remaining original content"
FinalResult(st, original, final) ==
    IF final /\ st.lastIdx < Len(original)
    THEN st.result \o SliceFrom(original, st.lastIdx)
    ELSE st.result

Returned(value) == [kind |-> "return", value |-> value, error |-> ""]
Thrown(message) == [kind |-> "throw", value |-> <<>>, error |-> message]
Pending == [kind |-> "pending", value |-> <<>>, error |-> ""]
NoMatchError == "Could not find a match for the SEARCH block in the file."

RECURSIVE ScanLines(_, _, _, _)
ScanLines(st, original, patchLines, i) ==
    IF st.threw \/ i > Len(patchLines) THEN st
    ELSE ScanLines(ProcessLine(st, original, patchLines[i]), original, patchLines, i + 1)

\* one whole call of applyDiff, as the function of its three arguments
applyDiff(diffArg, originalArg, final) ==
    LET d == normalizeNewlines(diffArg)
        o == normalizeNewlines(originalArg)
        st == ScanLines(InitLocals, o, Split(d), 1)
    IN  IF st.threw THEN Thrown(NoMatchError)
        ELSE Returned(FinalResult(st, o, final))

(***************************************************************************)
(* Inputs: patch texts in the SEARCH/REPLACE format and documents.         *)
(***************************************************************************)
MaxBlocks == 2
MaxDocLines == 2

\* each line followed by a line break
WithBreaks(ls) == Flatten([i \in 1 .. Len(ls) |-> ls[i] \o <<NL>>])

\* the same text written with the two-character escape for every line break
RECURSIVE JoinWith(_, _)
JoinWith(ls, sep) ==
    IF Len(ls) = 1 THEN ls[1] ELSE ls[1] \o sep \o JoinWith(Tail(ls), sep)

Escaped(s) == JoinWith(Split(s), <<BS, "n">>)

SeqsUpTo(S, n) == UNION {[1 .. k -> S] : k \in 0 .. n}

Block(search, replace) == [search |-> search, replace |-> replace]

\* one block of the format: marker, search lines, separator, replacement
\* lines, end marker
BlockLines(b) == <<SEARCH_START>> \o b.search \o <<SEPARATOR>> \o b.replace \o <<REPLACE_END>>

PatchText(blocks) == WithBreaks(Flatten([i \in 1 .. Len(blocks) |-> BlockLines(blocks[i])]))

BlockPool ==
    { Block(<< <<"a">> >>, << <<"b">> >>),
      Block(<< <<"n">> >>, <<>>),
      Block(<<>>, << <<"b">> >>),
      Block(<< <<"a">>, <<"n">> >>, << <<"n">>, <<"a">> >>) }

WellFormedPatches == {PatchText(bs) : bs \in SeqsUpTo(BlockPool, MaxBlocks)}

\* patch texts with sentinels out of order, near-sentinel lines and lines
\* outside any block
MalformedPatches ==
    { WithBreaks(<<REPLACE_END, SEARCH_START, <<"a">>, SEPARATOR, <<"b">>, REPLACE_END>>),
      WithBreaks(<<SEARCH_START, <<"a">>, REPLACE_END, SEARCH_START, <<"n">>, SEPARATOR, REPLACE_END>>),
      WithBreaks(<<SEPARATOR, <<"b">>, SEARCH_START, <<"a">>, SEPARATOR, SEPARATOR, <<"b">>, REPLACE_END>>),
      WithBreaks(<< <<"a">>, SEARCH_START, <<" ">> \o SEPARATOR, SEPARATOR, SEPARATOR \o <<" ">>, REPLACE_END, <<"n">> >>),
      WithBreaks(<<SEARCH_START, <<"a">>, SEPARATOR, <<"b">> >>),
      WithBreaks(<<SEARCH_START, <<"a">>, SEPARATOR, <<"b">>,
                   SEARCH_START, <<"n">>, SEPARATOR, <<"b">>, REPLACE_END>>),
      WithBreaks(<<SEARCH_START \o <<" ">>, SEARCH_START, <<"a">>, SEPARATOR,
                   <<" ">> \o REPLACE_END, SEPARATOR \o <<"a">>, REPLACE_END,
                   <<"a">> \o SEPARATOR>>),
      WithBreaks(<<SEARCH_START, <<"a">>, SEPARATOR, <<"b">>, REPLACE_END, REPLACE_END>>) }

EscapedPatches == {Escaped(PatchText(bs)) : bs \in SeqsUpTo(BlockPool, 1)}

\* a search block whose occurrences in a document can overlap
RepeatedLinePatches == {PatchText(<<Block(<< <<"a">>, <<"a">> >>, << <<"b">> >>)>>)}

\* well-formed blocks with lines before the first block, between two blocks
\* and after the last one
IdleLinePatches ==
    { WithBreaks(<< <<"a">>, SEARCH_START, <<"a">>, SEPARATOR, <<"b">>, REPLACE_END,
                   <<"n">>, <<" ">> \o SEPARATOR,
                   SEARCH_START, <<"n">>, SEPARATOR, REPLACE_END, <<"b">> >>),
      WithBreaks(<<SEARCH_START, SEPARATOR, <<"b">>, REPLACE_END, <<"a">> >>) }

Patches ==
    WellFormedPatches \cup MalformedPatches \cup EscapedPatches \cup RepeatedLinePatches
        \cup IdleLinePatches

DocLinePool == { <<"a">>, <<"n">>, <<"a", " ">> }

\* documents with a line before and a line after the lines a patch matches
LongerDocs ==
    { WithBreaks(<< <<"a">>, <<"n">>, <<"a", " ">> >>),
      WithBreaks(<< <<"a">>, <<"n">>, <<"a">> >>),
      WithBreaks(<< <<"n">>, <<"a", " ">>, <<"n">> >>),
      WithBreaks(<< <<"n">>, <<"a">>, <<"n">>, <<"a">> >>),
      WithBreaks(<< <<"n">>, <<"a">>, <<"n">>, <<"a">>, <<"n">> >>),
      WithBreaks(<< <<"a">>, <<"a">>, <<"a">> >>) }

\* documents whose last line ends with a line break, and the same without it
TerminatedDocs ==
    {WithBreaks(ls) : ls \in SeqsUpTo(DocLinePool, MaxDocLines)} \cup LongerDocs
UnterminatedDocs == {SubSeq(d, 1, Len(d) - 1) : d \in TerminatedDocs \ {<<>>}}

\* documents that contain the two characters backslash, n
LiteralDocs ==
    { <<"a", BS, "n", "n", NL>>,
      <<"a", BS, "n">>,
      <<"a", BS, NL, "n", NL>>,
      <<"n", NL, "a", BS, "n", "a", " ", NL>> }

\* documents in which a search line is only the end of a longer line
MidLineDocs == { <<"n", "a">>, <<"n", "a", NL, "n", NL>> }

Docs == TerminatedDocs \cup UnterminatedDocs \cup LiteralDocs \cup MidLineDocs

(***************************************************************************)
(* One call applyDiff(patchText, documentText, isFinal).  patchText and    *)
(* documentText are the caller's strings; diff and original are the        *)
(* parameters as the function rebinds them.                                *)
(***************************************************************************)
VARIABLES patchText, documentText, isFinal,
          diff, original, lines, lineNo,
          result, lastIdx, searchContent, inSearch, inReplace,
          matchStartIdx, matchEndIdx,
          pc, outcome

args == <<patchText, documentText, isFinal>>
locals == <<result, lastIdx, searchContent, inSearch, inReplace, matchStartIdx, matchEndIdx>>
scanVars == <<args, diff, original, lines, lineNo, locals, pc, outcome>>

(***************************************************************************)
(* replaceInS3File(path, diff, apiKey) on one path of the document store:  *)
(* store is the stored document, writes the calls of writeS3File made so   *)
(* far; per caller, s3pc is its position, s3diff its patch argument,       *)
(* currentContent and newContent its locals and reply what it returned or  *)
(* threw.                                                                  *)
(***************************************************************************)
VARIABLES store, writes, s3pc, s3diff, currentContent, newContent, reply

s3Vars == <<store, writes, s3pc, s3diff, currentContent, newContent, reply>>

(***************************************************************************)
(* executeCode(params, apiKey) (src/src/tools/sandbox/e2b_code.ts) and the *)
(* sandboxes of the E2B service: sandboxState is the state of each sandbox *)
(* at the service, pauseCalls the calls of sandbox.pause() made so far;    *)
(* per caller, codePc is its position, sandboxIdParam its params.sandboxId,*)
(* sandbox its local variable and codeReply what the call returned.        *)
(***************************************************************************)
VARIABLES sandboxState, pauseCalls, codePc, sandboxIdParam, sandbox, codeReply

codeVars == <<sandboxState, pauseCalls, codePc, sandboxIdParam, sandbox, codeReply>>

(***************************************************************************)
(* Several invocations of applyDiff in one process: calls holds, per       *)
(* invocation, its arguments, its position and its own locals (every       *)
(* accumulator of applyDiff is a `let` or `const` inside the function).    *)
(***************************************************************************)
VARIABLE calls

vars == <<scanVars, s3Vars, codeVars, calls>>

Callers == {"c1", "c2"}

\* what a call of replaceInS3File returned or threw
S3Returned(message) == [kind |-> "return", message |-> message]
S3Thrown(message) == [kind |-> "throw", message |-> message]
S3Pending == [kind |-> "pending", message |-> ""]

\* params.sandboxId left out, and `let sandbox: Sandbox | null = null`
Undefined == "undefined"
Null == "null"
SandboxIds == {"sbx1", "sbx2", "sbx3"}

\* what a call of executeCode returned: the formatted result with the two
\* sandbox ids, or the formatted error
CodeResult(initialSandboxId, pausedSandboxId) ==
    [kind |-> "result", initialSandboxId |-> initialSandboxId, pausedSandboxId |-> pausedSandboxId]
CodeError == [kind |-> "error", initialSandboxId |-> Null, pausedSandboxId |-> Null]
CodePending == [kind |-> "pending", initialSandboxId |-> Null, pausedSandboxId |-> Null]

\* no executeCode call is in progress
CodeIdle ==
    /\ sandboxState = [id \in SandboxIds |-> "none"]
    /\ pauseCalls = {}
    /\ codePc = [c \in Callers |-> "idle"]
    /\ sandboxIdParam = [c \in Callers |-> Undefined]
    /\ sandbox = [c \in Callers |-> Null]
    /\ codeReply = [c \in Callers |-> CodePending]

\* an invocation of applyDiff that has not been made
NoCall ==
    [patchText |-> <<>>, documentText |-> <<>>, isFinal |-> TRUE,
     original |-> <<>>, lines |-> <<>>, lineNo |-> 0,
     st |-> InitLocals, pc |-> "idle", outcome |-> Pending]

CallsIdle == calls = [c \in Callers |-> NoCall]

\* no replaceInS3File call is in progress
S3Idle ==
    /\ store = <<>>
    /\ writes = <<>>
    /\ s3pc = [c \in Callers |-> "idle"]
    /\ s3diff = [c \in Callers |-> <<>>]
    /\ currentContent = [c \in Callers |-> <<>>]
    /\ newContent = [c \in Callers |-> <<>>]
    /\ reply = [c \in Callers |-> S3Pending]

Locals ==
    [result |-> result, lastIdx |-> lastIdx, searchContent |-> searchContent,
     inSearch |-> inSearch, inReplace |-> inReplace,
     matchStartIdx |-> matchStartIdx, matchEndIdx |-> matchEndIdx, threw |-> FALSE]

SetLocals(st) ==
    /\ result' = st.result
    /\ lastIdx' = st.lastIdx
    /\ searchContent' = st.searchContent
    /\ inSearch' = st.inSearch
    /\ inReplace' = st.inReplace
    /\ matchStartIdx' = st.matchStartIdx
    /\ matchEndIdx' = st.matchEndIdx

\* the locals of applyDiff before a call
ScanIdle ==
    /\ diff = <<>>
    /\ original = <<>>
    /\ lines = <<>>
    /\ lineNo = 0
    /\ result = <<>>
    /\ lastIdx = 0
    /\ searchContent = <<>>
    /\ inSearch = FALSE
    /\ inReplace = FALSE
    /\ matchStartIdx = -1
    /\ matchEndIdx = -1
    /\ outcome = Pending

Init ==
    /\ patchText \in Patches
    /\ documentText \in Docs
    /\ isFinal \in BOOLEAN
    /\ pc = "call"
    /\ ScanIdle
    /\ S3Idle
    /\ CodeIdle
    /\ CallsIdle

\* entry: normalize both arguments, initialise the locals, split the patch
Call ==
    /\ pc = "call"
    /\ diff' = normalizeNewlines(patchText)
    /\ original' = normalizeNewlines(documentText)
    /\ lines' = Split(diff')
    /\ lineNo' = 1
    /\ SetLocals(InitLocals)
    /\ pc' = "scan"
    /\ UNCHANGED <<args, outcome, s3Vars, codeVars, calls>>

AtLine == pc = "scan" /\ lineNo <= Len(lines)

\* the line is compared with the sentinels after trimming
lineTrimmed == Trim(lines[lineNo])

line == lines[lineNo]

\* continue with the next line, or leave by the throw
Continue(st) ==
    /\ SetLocals(st)
    /\ IF st.threw
       THEN pc' = "thrown" /\ outcome' = Thrown(NoMatchError) /\ lineNo' = lineNo
       ELSE pc' = "scan" /\ outcome' = outcome /\ lineNo' = lineNo + 1
    /\ UNCHANGED <<args, diff, original, lines, s3Vars, codeVars, calls>>

SearchStartLine == AtLine /\ line = SEARCH_START /\ Continue(OnSearchStart(Locals))

SeparatorLine == AtLine /\ line = SEPARATOR /\ Continue(OnSeparator(Locals, original))

ReplaceEndLine == AtLine /\ line = REPLACE_END /\ Continue(OnReplaceEnd(Locals))

ContentLine == AtLine /\ ~IsSentinel(line) /\ Continue(OnContent(Locals, line))

\* after the loop: the trailing content, then return
Return ==
    /\ pc = "scan"
    /\ lineNo > Len(lines)
    /\ result' = FinalResult(Locals, original, isFinal)
    /\ outcome' = Returned(result')
    /\ pc' = "returned"
    /\ UNCHANGED <<args, diff, original, lines, lineNo, lastIdx, searchContent,
                   inSearch, inReplace, matchStartIdx, matchEndIdx, s3Vars, codeVars, calls>>

Next == Call \/ SearchStartLine \/ SeparatorLine \/ ReplaceEndLine \/ ContentLine \/ Return

Spec == Init /\ [][Next]_vars

(***************************************************************************)
(* replaceInS3File: read, apply the patch, compare, write back.  The calls *)
(* of the callers interleave at the awaits (the GET and the PUT).          *)
(***************************************************************************)
NoChangesApplied == "No changes applied - content already matches the expected patterns"
ChangesApplied == "Successfully applied changes"
ReadFailed == "Failed to replace content in S3 file: Failed to read file from S3"
ApplyFailed == "Failed to replace content in S3 file: Could not find a match for the SEARCH block in the file."
WriteFailed == "Failed to replace content in S3 file: Failed to write file to S3"

S3Docs ==
    { <<"a", NL>>,
      <<"a", NL, "n", NL>>,
      <<"b", NL>>,
      <<"n">>,
      <<"a", BS, "n", "n", NL>> }

S3Patches ==
    { <<>>,
      PatchText(<<Block(<< <<"a">> >>, << <<"b">> >>)>>),
      PatchText(<<Block(<< <<"n">> >>, <<>>)>>),
      PatchText(<<Block(<<>>, << <<"b">> >>)>>),
      PatchText(<<Block(<< <<"a">> >>, << <<"b">> >>), Block(<< <<"a">> >>, << <<"b">> >>)>>) }

InitS3 ==
    /\ patchText = <<>>
    /\ documentText = <<>>
    /\ isFinal = TRUE
    /\ pc = "idle"
    /\ ScanIdle
    /\ store \in S3Docs
    /\ writes = <<>>
    /\ s3pc = [c \in Callers |-> "start"]
    /\ s3diff \in [Callers -> S3Patches]
    /\ currentContent = [c \in Callers |-> <<>>]
    /\ newContent = [c \in Callers |-> <<>>]
    /\ reply = [c \in Callers |-> S3Pending]
    /\ CodeIdle
    /\ CallsIdle

\* the content is written back whether it changed or not
ModifiedAlways(current, new) == TRUE

\* const modified = currentContent !== newContent
Modified(current, new) == current # new

\* a failed patch is written back as an empty document
AfterApplyWriteOnError(r, current) ==
    IF r.kind = "throw" \/ Modified(current, r.value)
    THEN [pc |-> "writing", newContent |-> r.value, reply |-> S3Pending, write |-> TRUE]
    ELSE [pc |-> "done", newContent |-> r.value,
          reply |-> S3Returned(NoChangesApplied), write |-> FALSE]

\* what follows the outcome r of applyDiff: the catch block, the early
\* return, or the call of writeS3File
AfterApply(r, current) ==
    IF r.kind = "throw"
    THEN [pc |-> "failed", newContent |-> <<>>, reply |-> S3Thrown(ApplyFailed), write |-> FALSE]
    ELSE IF ~Modified(current, r.value)
    THEN [pc |-> "done", newContent |-> r.value,
          reply |-> S3Returned(NoChangesApplied), write |-> FALSE]
    ELSE [pc |-> "writing", newContent |-> r.value, reply |-> S3Pending, write |-> TRUE]

\* readS3File returns the stored document
S3Read(c) ==
    /\ s3pc[c] = "start"
    /\ currentContent' = [currentContent EXCEPT ![c] = store]
    /\ s3pc' = [s3pc EXCEPT ![c] = "read"]
    /\ UNCHANGED <<store, writes, s3diff, newContent, reply, scanVars, codeVars, calls>>

\* readS3File throws (the response is not ok, or the request fails)
S3ReadFail(c) ==
    /\ s3pc[c] = "start"
    /\ reply' = [reply EXCEPT ![c] = S3Thrown(ReadFailed)]
    /\ s3pc' = [s3pc EXCEPT ![c] = "failed"]
    /\ UNCHANGED <<store, writes, s3diff, currentContent, newContent, scanVars, codeVars, calls>>

\* applyDiff(diff, currentContent, true), the comparison, and the call of
\* writeS3File when the content was modified
S3Apply(c) ==
    /\ s3pc[c] = "read"
    /\ LET after == AfterApply(applyDiff(s3diff[c], currentContent[c], TRUE), currentContent[c])
       IN  /\ newContent' = [newContent EXCEPT ![c] = after.newContent]
           /\ reply' = [reply EXCEPT ![c] = after.reply]
           /\ s3pc' = [s3pc EXCEPT ![c] = after.pc]
           /\ writes' = IF after.write
                        THEN Append(writes, [by |-> c, content |-> after.newContent])
                        ELSE writes
    /\ UNCHANGED <<store, s3diff, currentContent, scanVars, codeVars, calls>>

\* the patch is applied again to the content stored at the time of the write
S3WriteMerged(c) ==
    /\ s3pc[c] = "writing"
    /\ store' = applyDiff(s3diff[c], store, TRUE).value
    /\ reply' = [reply EXCEPT ![c] = S3Returned(ChangesApplied)]
    /\ s3pc' = [s3pc EXCEPT ![c] = "done"]
    /\ UNCHANGED <<writes, s3diff, currentContent, newContent, scanVars, codeVars, calls>>

\* the PUT of writeS3File succeeds
S3Write(c) ==
    /\ s3pc[c] = "writing"
    /\ store' = newContent[c]
    /\ reply' = [reply EXCEPT ![c] = S3Returned(ChangesApplied)]
    /\ s3pc' = [s3pc EXCEPT ![c] = "done"]
    /\ UNCHANGED <<writes, s3diff, currentContent, newContent, scanVars, codeVars, calls>>

\* writeS3File throws
S3WriteFail(c) ==
    /\ s3pc[c] = "writing"
    /\ reply' = [reply EXCEPT ![c] = S3Thrown(WriteFailed)]
    /\ s3pc' = [s3pc EXCEPT ![c] = "failed"]
    /\ UNCHANGED <<store, writes, s3diff, currentContent, newContent, scanVars, codeVars, calls>>

NextS3 ==
    \E c \in Callers :
        S3Read(c) \/ S3ReadFail(c) \/ S3Apply(c) \/ S3Write(c) \/ S3WriteFail(c)

SpecS3 == InitS3 /\ [][NextS3]_vars

(***************************************************************************)
(* executeCode: create or resume a sandbox, run the code, pause the        *)
(* sandbox, return; any exception inside the try block is caught and       *)
(* returned as a formatted error.  The calls interleave at the awaits.     *)
(***************************************************************************)
InitCode ==
    /\ patchText = <<>>
    /\ documentText = <<>>
    /\ isFinal = TRUE
    /\ pc = "idle"
    /\ ScanIdle
    /\ S3Idle
    /\ sandboxState \in {[id \in SandboxIds |-> "none"],
                         [id \in SandboxIds |-> IF id = "sbx1" THEN "paused" ELSE "none"]}
    /\ pauseCalls = {}
    /\ codePc = [c \in Callers |-> "start"]
    /\ sandboxIdParam \in [Callers -> {Undefined, "", "sbx1"}]
    /\ sandbox = [c \in Callers |-> Null]
    /\ codeReply = [c \in Callers |-> CodePending]
    /\ CallsIdle

\* `if (sandboxId)`: undefined and the empty string are falsy
Truthy(id) == id \notin {Undefined, ""}

\* Sandbox.create({ apiKey }) returns a new running sandbox
CodeCreate(c) ==
    /\ codePc[c] = "start"
    /\ ~Truthy(sandboxIdParam[c])
    /\ \E id \in SandboxIds :
          /\ sandboxState[id] = "none"
          /\ sandboxState' = [sandboxState EXCEPT ![id] = "running"]
          /\ sandbox' = [sandbox EXCEPT ![c] = id]
    /\ codePc' = [codePc EXCEPT ![c] = "created"]
    /\ UNCHANGED <<pauseCalls, sandboxIdParam, codeReply, scanVars, s3Vars, calls>>

\* Sandbox.resume(sandboxId, {apiKey}) returns the existing sandbox, running
CodeResume(c) ==
    /\ codePc[c] = "start"
    /\ Truthy(sandboxIdParam[c])
    /\ sandboxState[sandboxIdParam[c]] # "none"
    /\ sandboxState' = [sandboxState EXCEPT ![sandboxIdParam[c]] = "running"]
    /\ sandbox' = [sandbox EXCEPT ![c] = sandboxIdParam[c]]
    /\ codePc' = [codePc EXCEPT ![c] = "created"]
    /\ UNCHANGED <<pauseCalls, sandboxIdParam, codeReply, scanVars, s3Vars, calls>>

\* createSandbox throws (no API key, unknown sandbox id, request failure):
\* sandbox stays null, the catch block returns the formatted error
CodeCreateFail(c) ==
    /\ codePc[c] = "start"
    /\ codeReply' = [codeReply EXCEPT ![c] = CodeError]
    /\ codePc' = [codePc EXCEPT ![c] = "returned"]
    /\ UNCHANGED <<sandboxState, pauseCalls, sandboxIdParam, sandbox, scanVars, s3Vars, calls>>

\* sandbox.runCode returns an execution result, which is formatted
CodeRun(c) ==
    /\ codePc[c] = "created"
    /\ sandboxState[sandbox[c]] = "running"
    /\ codePc' = [codePc EXCEPT ![c] = "ran"]
    /\ UNCHANGED <<sandboxState, pauseCalls, sandboxIdParam, sandbox, codeReply, scanVars, s3Vars, calls>>

\* sandbox.runCode throws (timeout, request failure, sandbox paused by
\* another call): control goes to the catch block, which returns the
\* formatted error
CodeRunFail(c) ==
    /\ codePc[c] = "created"
    /\ codeReply' = [codeReply EXCEPT ![c] = CodeError]
    /\ codePc' = [codePc EXCEPT ![c] = "returned"]
    /\ UNCHANGED <<sandboxState, pauseCalls, sandboxIdParam, sandbox, scanVars, s3Vars, calls>>

\* sandbox.pause() returns the id; the result is returned with both ids
CodePause(c) ==
    /\ codePc[c] = "ran"
    /\ pauseCalls' = pauseCalls \cup {[by |-> c, sandbox |-> sandbox[c]]}
    /\ sandboxState' = [sandboxState EXCEPT ![sandbox[c]] = "paused"]
    /\ codeReply' = [codeReply EXCEPT ![c] = CodeResult(sandbox[c], sandbox[c])]
    /\ codePc' = [codePc EXCEPT ![c] = "returned"]
    /\ UNCHANGED <<sandboxIdParam, sandbox, scanVars, s3Vars, calls>>

\* sandbox.pause() was called and throws: the catch block returns the
\* formatted error
CodePauseFail(c) ==
    /\ codePc[c] = "ran"
    /\ pauseCalls' = pauseCalls \cup {[by |-> c, sandbox |-> sandbox[c]]}
    /\ codeReply' = [codeReply EXCEPT ![c] = CodeError]
    /\ codePc' = [codePc EXCEPT ![c] = "returned"]
    /\ UNCHANGED <<sandboxState, sandboxIdParam, sandbox, scanVars, s3Vars, calls>>

NextCode ==
    \E c \in Callers :
        \/ CodeCreate(c) \/ CodeResume(c) \/ CodeCreateFail(c)
        \/ CodeRun(c) \/ CodeRunFail(c)
        \/ CodePause(c) \/ CodePauseFail(c)

SpecCode == InitCode /\ [][NextCode]_vars

(***************************************************************************)
(* Two invocations of applyDiff whose steps interleave line by line (more  *)
(* interleaving than a single JavaScript thread produces, which runs each  *)
(* synchronous call to its end).                                           *)
(***************************************************************************)
CallPatches ==
    { PatchText(<<Block(<< <<"a">> >>, << <<"b">> >>)>>),
      PatchText(<<Block(<<>>, << <<"b">> >>)>>),
      WithBreaks(<<REPLACE_END, SEARCH_START, <<"n">>, SEPARATOR, REPLACE_END>>) }

CallDocs == { <<"a", NL, "n", NL>>, <<"n", NL, "a", " ">>, <<"b", BS, "n">> }

NewCall(p, d, f) == [NoCall EXCEPT !.patchText = p, !.documentText = d, !.isFinal = f, !.pc = "call"]

InitCalls ==
    /\ patchText = <<>>
    /\ documentText = <<>>
    /\ isFinal = TRUE
    /\ pc = "idle"
    /\ ScanIdle
    /\ S3Idle
    /\ CodeIdle
    /\ calls \in [Callers -> {NewCall(p, d, f) : p \in CallPatches, d \in CallDocs, f \in BOOLEAN}]

\* the locals of another invocation are read
OwnLocalsShared(c) == calls["c1"].st

\* the locals that invocation c reads and writes
OwnLocals(c) == calls[c].st

\* entry of invocation c: normalize the arguments, initialise the locals
CallEnter(c) ==
    /\ calls[c].pc = "call"
    /\ calls' = [calls EXCEPT ![c] =
                    [@ EXCEPT !.original = normalizeNewlines(calls[c].documentText),
                              !.lines = Split(normalizeNewlines(calls[c].patchText)),
                              !.lineNo = 1,
                              !.st = InitLocals,
                              !.pc = "scan"]]
    /\ UNCHANGED <<scanVars, s3Vars, codeVars>>

\* one iteration of the for loop of invocation c
CallLine(c) ==
    /\ calls[c].pc = "scan"
    /\ calls[c].lineNo <= Len(calls[c].lines)
    /\ LET st == ProcessLine(OwnLocals(c), calls[c].original, calls[c].lines[calls[c].lineNo])
       IN  calls' = [calls EXCEPT ![c] =
                       IF st.threw
                       THEN [@ EXCEPT !.st = st, !.pc = "thrown", !.outcome = Thrown(NoMatchError)]
                       ELSE [@ EXCEPT !.st = st, !.lineNo = @ + 1]]
    /\ UNCHANGED <<scanVars, s3Vars, codeVars>>

\* after the loop of invocation c: the trailing content, then return
CallReturn(c) ==
    /\ calls[c].pc = "scan"
    /\ calls[c].lineNo > Len(calls[c].lines)
    /\ calls' = [calls EXCEPT ![c] =
                    [@ EXCEPT !.pc = "returned",
                              !.outcome = Returned(FinalResult(OwnLocals(c), calls[c].original,
                                                               calls[c].isFinal))]]
    /\ UNCHANGED <<scanVars, s3Vars, codeVars>>

NextCalls == \E c \in Callers : CallEnter(c) \/ CallLine(c) \/ CallReturn(c)

SpecCalls == InitCalls /\ [][NextCalls]_vars

(***************************************************************************)
(* Vocabulary of the properties.                                           *)
(***************************************************************************)
\* sub occurs in s at 0-based offset p
Occurs(s, sub, p) == p >= 0 /\ p + Len(sub) <= Len(s) /\ SubSeq(s, p + 1, p + Len(sub)) = sub

DocLines == Split(original)

\* the lines accumulated in the search block (searchContent holds each of
\* them followed by a line break)
AccumulatedLines ==
    LET sl == Split(searchContent) IN SubSeq(sl, 1, Len(sl) - 1)

\* character offset at which 0-based line i of ls begins
LineStart(ls, i) == Len(WithBreaks(SubSeq(ls, 1, i)))

\* the run of Len(sl) lines of ls from 0-based line i equals sl line by line
\* after trimming
TrimmedRun(ls, sl, i) ==
    /\ i + Len(sl) <= Len(ls)
    /\ \A j \in 1 .. Len(sl) : Trim(ls[i + j]) = Trim(sl[j])

\* the search block occurs literally at or after the cursor
ExactFrom(cursor) ==
    \E p \in Max(cursor, 0) .. Len(original) : Occurs(original, searchContent, p)

\* some run of whole lines at or after the cursor equals the search lines
\* after trimming
TrimmedFrom(cursor) ==
    \E i \in 0 .. Len(DocLines) - 1 :
        LineStart(DocLines, i) >= cursor /\ TrimmedRun(DocLines, AccumulatedLines, i)

\* the state right after a SEPARATOR line was handled
AfterSeparator ==
    \/ pc = "thrown"
    \/ pc = "scan" /\ lineNo > 1 /\ lines[lineNo - 1] = SEPARATOR

\* the step-by-step scan and the function applyDiff agree
ScanAgrees == pc \in {"returned", "thrown"} => outcome = applyDiff(patchText, documentText, isFinal)

(***************************************************************************)
(* C1: a non-empty search block that can be located from the cursor onward *)
(* neither literally nor by line-trimmed comparison fails the whole call:  *)
(* the call throws and returns no output string, whatever earlier blocks   *)
(* already emitted.                                                        *)
(***************************************************************************)
C1_UnmatchedBlockFails ==
    [][(/\ AtLine
        /\ line = SEPARATOR
        /\ searchContent # <<>>
        /\ ~ExactFrom(lastIdx)
        /\ ~TrimmedFrom(lastIdx))
       => (pc' = "thrown" /\ outcome'.kind = "throw" /\ outcome'.value = <<>>)]_vars

\* a later block failed after an earlier block had emitted output
C1_Witness ==
    /\ pc = "thrown"
    /\ outcome.kind = "throw"
    /\ result # <<>>
    /\ lastIdx > 0


(***************************************************************************)
(* C2: with two non-empty blocks, the second block's matched range starts  *)
(* at or after the end of the first block's matched range (the cursor); an *)
(* occurrence of its search text before the first block's match is never   *)
(* the one matched, on the exact path and on the line-trimmed path.        *)
(***************************************************************************)
C2_SecondMatchAfterFirst ==
    (AfterSeparator /\ pc = "scan" /\ searchContent # <<>>)
        => /\ matchStartIdx >= lastIdx
           /\ matchEndIdx >= matchStartIdx

\* the second block was matched by trimmed comparison behind the first
\* block's match although its search text occurs literally at the start of
\* the document, before the first block's match, where it was copied through
C2_Witness ==
    /\ AfterSeparator
    /\ pc = "scan"
    /\ searchContent # <<>>
    /\ lastIdx > 0
    /\ Occurs(original, searchContent, 0)
    /\ Len(searchContent) < lastIdx
    /\ SubSeq(result, 1, Len(searchContent)) = searchContent
    /\ ~ExactFrom(lastIdx)
    /\ matchStartIdx >= lastIdx

(***************************************************************************)
(* C3: exact match precedence.                                             *)
(***************************************************************************)
\* the search lines joined with line breaks, without the line break that
\* the accumulation appends after the last line
JoinedSearch == SubSeq(searchContent, 1, Len(searchContent) - 1)

\* the block was resolved by the line-trimmed comparison to whole lines
ResolvedToTrimmedRun ==
    \E i \in 0 .. Len(DocLines) - 1 :
        /\ LineStart(DocLines, i) >= lastIdx
        /\ TrimmedRun(DocLines, AccumulatedLines, i)
        /\ matchStartIdx = LineStart(DocLines, i)
        /\ matchEndIdx = LineStart(DocLines, i + Len(AccumulatedLines))

\* C3 as stated: whenever the joined search lines (trailing empty line
\* stripped) occur literally at or after the cursor, the block resolves to
\* such an occurrence inside the document and the call does not fail, the
\* last line of a document without a trailing line break included.  (The
\* range may include the line break that ends the last search line.)
C3_AsStated ==
    (/\ AfterSeparator
     /\ searchContent # <<>>
     /\ \E p \in Max(lastIdx, 0) .. Len(original) : Occurs(original, JoinedSearch, p))
        => /\ pc = "scan"
           /\ Occurs(original, JoinedSearch, matchStartIdx)
           /\ matchEndIdx - matchStartIdx \in {Len(JoinedSearch), Len(JoinedSearch) + 1}
           /\ matchEndIdx <= Len(original)

\* C3 as amended: whenever the search lines, each followed by its line
\* break, occur literally at or after the cursor, the block resolves to the
\* first such occurrence, range [index, index + length), and not to a
\* line-trimmed match; when they do not (as on the last line of a document
\* without a trailing line break) a resolved block is a line-trimmed match
\* of whole lines.
C3_ExactMatchPrecedence ==
    (AfterSeparator /\ searchContent # <<>>)
        => IF ExactFrom(lastIdx)
           THEN /\ pc = "scan"
                /\ matchStartIdx >= lastIdx
                /\ Occurs(original, searchContent, matchStartIdx)
                /\ \A p \in Max(lastIdx, 0) .. matchStartIdx - 1 : ~Occurs(original, searchContent, p)
                /\ matchEndIdx = matchStartIdx + Len(searchContent)
           ELSE pc = "scan" => ResolvedToTrimmedRun

\* an exact occurrence was taken although an earlier run of lines at or
\* after the cursor agrees with the search lines after trimming
C3_Witness ==
    /\ AfterSeparator
    /\ pc = "scan"
    /\ searchContent # <<>>
    /\ ExactFrom(lastIdx)
    /\ \E i \in 0 .. Len(DocLines) - 1 :
          /\ LineStart(DocLines, i) >= lastIdx
          /\ LineStart(DocLines, i) < matchStartIdx
          /\ TrimmedRun(DocLines, AccumulatedLines, i)

SingleEmptySearchBlock(k) ==
    /\ Len(lines) >= 3
    /\ lines[1] = SEARCH_START
    /\ lines[2] = SEPARATOR
    /\ k \in 3 .. Len(lines)
    /\ lines[k] = REPLACE_END
    /\ \A j \in 3 .. Len(lines) : j # k => ~IsSentinel(lines[j])

C5_FullReplacement ==
    \A k \in 1 .. Len(lines) :
        (pc = "returned" /\ SingleEmptySearchBlock(k))
            => /\ outcome.kind = "return"
               /\ outcome.value = WithBreaks(SubSeq(lines, 3, k - 1))

\* a non-empty document was replaced as a whole in a final call
C5_Witness ==
    /\ pc = "returned"
    /\ isFinal
    /\ \E k \in 1 .. Len(lines) : SingleEmptySearchBlock(k) /\ k > 3
    /\ Len(original) > 0

(***************************************************************************)
(* C6: newline escape normalization.  The outcome of a call (the returned  *)
(* string, or the failure) is the same as the outcome of the call on the   *)
(* same patch and document written with the two-character escape          *)
(* backslash, n in place of every line break.                              *)
(***************************************************************************)
C6_EscapedPairBehavesAlike ==
    pc \in {"returned", "thrown"}
        => outcome = applyDiff(Escaped(patchText), Escaped(documentText), isFinal)

\* a call on a patch and a document with real line breaks that changed the
\* document
C6_Witness ==
    /\ pc = "returned"
    /\ Escaped(patchText) # patchText
    /\ Escaped(documentText) # documentText
    /\ outcome.value # documentText
    /\ lastIdx > 0

(***************************************************************************)
(* C7: preservation outside matches.                                       *)
(***************************************************************************)
\* C7 as stated, in the case it names: with isFinal = true a patch with no
\* blocks (no sentinel line) returns a string identical to the document the
\* caller passed in, also when that document contains the two characters
\* backslash, n.
C7_AsStated ==
    (/\ pc = "returned"
     /\ isFinal
     /\ \A j \in 1 .. Len(lines) : ~IsSentinel(lines[j]))
        => outcome.value = documentText

(***************************************************************************)
(* C10: when the document consists exactly of the search block's lines,    *)
(* each terminated by a line break, a final call with that one block       *)
(* returns exactly the replace block's lines, each terminated by a line    *)
(* break.                                                                  *)
(***************************************************************************)
\* the patch is one block: SEARCH marker on line 1, SEPARATOR on line s,
\* REPLACE-end marker on line e, no other sentinel line
SingleBlock(s, e) ==
    /\ 1 < s /\ s < e /\ e <= Len(lines)
    /\ lines[1] = SEARCH_START
    /\ lines[s] = SEPARATOR
    /\ lines[e] = REPLACE_END
    /\ \A j \in 2 .. Len(lines) : j \notin {s, e} => ~IsSentinel(lines[j])

C10_WholeDocumentReplaced ==
    \A s, e \in 1 .. Len(lines) :
        (/\ pc \in {"returned", "thrown"}
         /\ isFinal
         /\ SingleBlock(s, e)
         /\ documentText = WithBreaks(SubSeq(lines, 2, s - 1)))
            => /\ outcome.kind = "return"
               /\ outcome.value = WithBreaks(SubSeq(lines, s + 1, e - 1))

\* a two-line search block was the whole document and was replaced by two
\* other lines
C10_Witness ==
    /\ pc = "returned"
    /\ isFinal
    /\ \E s, e \in 1 .. Len(lines) :
          /\ SingleBlock(s, e)
          /\ s = 4
          /\ e = 7
          /\ documentText = WithBreaks(SubSeq(lines, 2, s - 1))
          /\ outcome.value # documentText

(***************************************************************************)
(* C8: replaceInS3File writes back only if the patched content differs     *)
(* from the content it read: writeS3File is called only with content that  *)
(* differs from what the caller read, and when applyDiff returns a string  *)
(* equal to the read content the caller makes no call of writeS3File and   *)
(* returns the 'No changes applied' message.                               *)
(***************************************************************************)
\* caller c made a call of writeS3File
Wrote(c) == \E i \in 1 .. Len(writes) : writes[i].by = c

\* caller c is past its call of applyDiff
Applied(c) == s3pc[c] \in {"writing", "done"} \/ (s3pc[c] = "failed" /\ reply[c].message # ReadFailed)

C8_WriteOnlyIfChanged ==
    \A c \in Callers :
        /\ (s3pc[c] = "writing" \/ Wrote(c)) => newContent[c] # currentContent[c]
        /\ \A i \in 1 .. Len(writes) : writes[i].by = c => writes[i].content = newContent[c]
        /\ (Applied(c) /\ applyDiff(s3diff[c], currentContent[c], TRUE) = Returned(currentContent[c]))
              => /\ s3pc[c] = "done"
                 /\ ~Wrote(c)
                 /\ reply[c] = S3Returned(NoChangesApplied)

\* a patch with a block left the document as it was and nothing was written
C8_Witness ==
    \E c \in Callers :
        /\ s3pc[c] = "done"
        /\ reply[c] = S3Returned(NoChangesApplied)
        /\ s3diff[c] # <<>>
        /\ newContent[c] = currentContent[c]
        /\ writes = <<>>

(***************************************************************************)
(* C9: when applyDiff raises, or the read fails, inside replaceInS3File,   *)
(* that invocation makes no write to the document store (a stored document *)
(* that nobody else wrote is what it was before the call) and the caller   *)
(* receives an error.                                                      *)
(***************************************************************************)
C9_NoWriteOnFailure ==
    \A c \in Callers :
        LET readFailed == s3pc[c] = "failed" /\ reply[c].message = ReadFailed
            applyRaised == Applied(c) /\ applyDiff(s3diff[c], currentContent[c], TRUE).kind = "throw"
        IN  (readFailed \/ applyRaised)
                => /\ s3pc[c] = "failed"
                   /\ reply[c].kind = "throw"
                   /\ ~Wrote(c)
                   /\ (writes = <<>> /\ s3pc[c] = "failed" /\ currentContent[c] # <<>>
                          => store = currentContent[c])

\* applyDiff raised after the document had been read; the store still holds
\* the document that was read
C9_Witness ==
    \E c \in Callers :
        /\ s3pc[c] = "failed"
        /\ reply[c] = S3Thrown(ApplyFailed)
        /\ currentContent[c] # <<>>
        /\ store = currentContent[c]

(***************************************************************************)
(* C11: only the first occurrence is replaced.  When the search text of    *)
(* the one block of a patch occurs more than once in the document (exactly,*)
(* or when it occurs exactly nowhere, as runs of lines equal after         *)
(* trimming), a final call replaces the earliest occurrence only: the      *)
(* output is the text before it, the replacement lines and the text after  *)
(* it, so every occurrence that begins at or after the end of the replaced *)
(* one appears unchanged in the output.                                    *)
(***************************************************************************)
\* the occurrences of the search lines sl in the document doc: the literal
\* ones, or the line-trimmed ones when there is no literal one
OccurrencesIn(doc, sl) ==
    LET exact == {p \in 0 .. Len(doc) : Occurs(doc, WithBreaks(sl), p)}
        trimmed == {i \in 0 .. Len(Split(doc)) - 1 : TrimmedRun(Split(doc), sl, i)}
    IN  IF exact # {}
        THEN {[start |-> p, end |-> p + Len(WithBreaks(sl))] : p \in exact}
        ELSE {[start |-> LineStart(Split(doc), i),
               end |-> Min(LineStart(Split(doc), i + Len(sl)), Len(doc))] : i \in trimmed}

\* the occurrences in the normalized document of the call
Occurrences(sl) == OccurrencesIn(original, sl)

Earliest(occ) == CHOOSE o \in occ : \A other \in occ : o.start <= other.start

C12_DeletionByEmptyReplace ==
    \A s \in 1 .. Len(lines) :
        LET occ == Occurrences(SubSeq(lines, 2, s - 1))
            match == Earliest(occ)
        IN  (/\ pc \in {"returned", "thrown"}
             /\ isFinal
             /\ SingleBlock(s, s + 1)
             /\ s > 2
             /\ occ # {})
                => /\ outcome.kind = "return"
                   /\ match.end = Min(lastIdx, Len(original))
                   /\ outcome.value = Slice(original, 0, match.start) \o SliceFrom(original, match.end)
                   /\ Len(outcome.value) = Len(original) - (match.end - match.start)

\* a line in the middle of the document was deleted
C12_Witness ==
    /\ pc = "returned"
    /\ isFinal
    /\ \E s \in 1 .. Len(lines) :
          /\ SingleBlock(s, s + 1)
          /\ s > 2
          /\ LET occ == Occurrences(SubSeq(lines, 2, s - 1))
             IN  /\ occ # {}
                 /\ Earliest(occ).start > 0
                 /\ Earliest(occ).end < Len(original)
                 /\ Len(outcome.value) < Len(original)

(***************************************************************************)
(* C13: last write-back wins.  Every completed write of replaceInS3File    *)
(* stores the output that its invocation computed from the content it had  *)
(* read, whatever the store holds by then: when two invocations have both  *)
(* read before either writes, the stored document after the last write is  *)
(* the last writer's output and the other invocation's edit is absent.     *)
(* Nothing compares the store with the content read before the write.      *)
(***************************************************************************)
C13_LastWriteWins ==
    [][\A c \in Callers :
          (s3pc[c] = "writing" /\ s3pc'[c] = "done")
              => /\ store' = applyDiff(s3diff[c], currentContent[c], TRUE).value
                 /\ reply'[c] = S3Returned(ChangesApplied)]_vars

\* both invocations read the same content and both wrote; the store holds
\* the output of one of them, which is neither the other's output nor what
\* that patch gives on the other's output: the other edit is lost
C13_Witness ==
    \E c, d \in Callers :
        /\ c # d
        /\ s3pc[c] = "done" /\ reply[c] = S3Returned(ChangesApplied)
        /\ s3pc[d] = "done" /\ reply[d] = S3Returned(ChangesApplied)
        /\ currentContent[c] = currentContent[d]
        /\ store = newContent[c]
        /\ store # newContent[d]
        /\ applyDiff(s3diff[c], newContent[d], TRUE).kind = "return"
        /\ store # applyDiff(s3diff[c], newContent[d], TRUE).value

(***************************************************************************)
(* C14: applying the same patch twice is not idempotent in general.  When  *)
(* a final call with one non-empty block succeeded with result D', the     *)
(* same call on D' fails with the no-match error exactly when the search   *)
(* lines occur nowhere in D' (neither literally nor after trimming), and   *)
(* otherwise matches the earliest occurrence left or newly formed in D'    *)
(* and applies the replacement again.  (That the second call can differ    *)
(* from D' is what the witness shows.)                                     *)
(***************************************************************************)
\* the outcome of applying the patch of this call to its own output
SecondApplication == applyDiff(patchText, outcome.value, TRUE)

C14_SecondApplication ==
    \A s, e \in 1 .. Len(lines) :
        LET again == normalizeNewlines(outcome.value)
            occ == OccurrencesIn(again, SubSeq(lines, 2, s - 1))
            first == Earliest(occ)
            replacement == WithBreaks(SubSeq(lines, s + 1, e - 1))
        IN  (/\ pc = "returned"
             /\ isFinal
             /\ SingleBlock(s, e)
             /\ s > 2)
                => IF occ = {}
                   THEN SecondApplication = Thrown(NoMatchError)
                   ELSE SecondApplication =
                            Returned(Slice(again, 0, first.start) \o replacement
                                        \o SliceFrom(again, first.end))

\* the second application found a remaining occurrence, replaced it too and
\* so returned something else than the first result
C14_Witness ==
    /\ pc = "returned"
    /\ isFinal
    /\ \E s, e \in 1 .. Len(lines) : SingleBlock(s, e) /\ s > 2
    /\ outcome.value # original
    /\ SecondApplication.kind = "return"
    /\ SecondApplication.value # outcome.value

\* the second application failed: the first one left no occurrence
C14_WitnessFails ==
    /\ pc = "returned"
    /\ isFinal
    /\ \E s, e \in 1 .. Len(lines) : SingleBlock(s, e) /\ s > 2
    /\ outcome.value # original
    /\ SecondApplication = Thrown(NoMatchError)

(***************************************************************************)
(* C15: the sandbox is paused after each operation.                        *)
(***************************************************************************)
\* caller c called pause on the sandbox it had created or resumed
CalledPause(c) == [by |-> c, sandbox |-> sandbox[c]] \in pauseCalls

\* C15 as stated: every executeCode call that created or resumed a sandbox
\* has called pause on that sandbox by the time it returns, also when
\* running the code threw.
C15_AsStated ==
    \A c \in Callers :
        (codePc[c] = "returned" /\ sandbox[c] # Null) => CalledPause(c)

\* what the code does keep: a call that returns a result (not an error) has
\* called pause on its sandbox
C15_ResultImpliesPaused ==
    \A c \in Callers :
        (codePc[c] = "returned" /\ codeReply[c].kind = "result")
            => /\ sandbox[c] # Null
               /\ CalledPause(c)

(***************************************************************************)
(* C16: output assembly.  For a well-formed patch of k blocks with         *)
(* non-empty search sections that resolve, in order and each from the end  *)
(* of the one before, to the ranges [s1, e1), ..., [sk, ek) of the         *)
(* normalized document D, a final call returns                             *)
(* D[0..s1) + R1 + D[e1..s2) + ... + Rk + D[ek..), where Ri is the         *)
(* replacement lines of block i, each followed by a line break.            *)
(***************************************************************************)
\* the range that search lines sl resolve to in doc from the cursor: the
\* first literal occurrence of the lines with their line breaks, else the
\* first run of whole lines equal to them after trimming
MatchFrom(doc, sl, cursor) ==
    LET exact == {p \in Max(cursor, 0) .. Len(doc) : Occurs(doc, WithBreaks(sl), p)}
        runs == {i \in 0 .. Len(Split(doc)) - 1 :
                    LineStart(Split(doc), i) >= cursor /\ TrimmedRun(Split(doc), sl, i)}
        p0 == CHOOSE p \in exact : \A q \in exact : p <= q
        i0 == CHOOSE i \in runs : \A j \in runs : i <= j
    IN  IF exact # {}
        THEN [found |-> TRUE, start |-> p0, end |-> p0 + Len(WithBreaks(sl))]
        ELSE IF runs # {}
        THEN [found |-> TRUE, start |-> LineStart(Split(doc), i0),
              end |-> LineStart(Split(doc), i0 + Len(sl))]
        ELSE [found |-> FALSE, start |-> -1, end |-> -1]

\* D[cursor..s1) + R1 + D[e1..s2) + ... + Rk + D[ek..) for the blocks bs, or
\* no text when a block does not resolve
RECURSIVE Assembled(_, _, _)
Assembled(doc, bs, cursor) ==
    IF bs = <<>> THEN [resolved |-> TRUE, text |-> SliceFrom(doc, cursor)]
    ELSE LET m == MatchFrom(doc, Head(bs).search, cursor)
             rest == Assembled(doc, Tail(bs), m.end)
         IN  IF ~m.found \/ ~rest.resolved THEN [resolved |-> FALSE, text |-> <<>>]
             ELSE [resolved |-> TRUE,
                   text |-> Slice(doc, cursor, m.start) \o WithBreaks(Head(bs).replace) \o rest.text]

\* the sequences of blocks with non-empty search sections that the
\* normalized patch text consists of
NonEmptyBlocks ==
    {bs \in SeqsUpTo(BlockPool, MaxBlocks) :
        /\ bs # <<>>
        /\ diff = PatchText(bs)
        /\ \A i \in 1 .. Len(bs) : bs[i].search # <<>>}

C16_OutputAssembly ==
    (pc \in {"returned", "thrown"} /\ isFinal)
        => \A bs \in NonEmptyBlocks :
              Assembled(original, bs, 0).resolved
                  => outcome = Returned(Assembled(original, bs, 0).text)

\* two blocks were resolved with document text before the first, between
\* the two and after the second
C16_Witness ==
    /\ pc = "returned"
    /\ isFinal
    /\ \E bs \in NonEmptyBlocks :
          /\ Len(bs) = 2
          /\ LET m1 == MatchFrom(original, bs[1].search, 0)
                 m2 == MatchFrom(original, bs[2].search, m1.end)
             IN  /\ m1.found /\ m2.found
                 /\ 0 < m1.start
                 /\ m1.end < m2.start
                 /\ m2.end < Len(original)
                 /\ bs[1].replace # <<>>
                 /\ outcome.value # original

(***************************************************************************)
(* C17: matching never backtracks.                                         *)
(***************************************************************************)
\* C17 as stated: for every block of every patch, blocks with an empty
\* SEARCH section and blocks that follow one included, the range resolved
\* at the SEPARATOR line starts at or after the cursor lastIdx left by the
\* previous block.
C17_AsStated ==
    (AfterSeparator /\ pc = "scan") => matchStartIdx >= lastIdx

(***************************************************************************)
(* C18: a resolved match is a range inside the document.                   *)
(***************************************************************************)
\* C18 as stated: every resolved match satisfies
\* 0 <= start <= end <= documentLength, on the exact path, on the
\* line-trimmed path (the last line of a document without a trailing line
\* break included) and for an empty search block.
C18_AsStated ==
    (AfterSeparator /\ pc = "scan")
        => /\ 0 <= matchStartIdx
           /\ matchStartIdx <= matchEndIdx
           /\ matchEndIdx <= Len(original)

(***************************************************************************)
(* C19: the cursor never decreases.                                        *)
(***************************************************************************)
\* C19 as stated: lastIdx starts at 0 and no step of the scan decreases it,
\* for any patch text, one where a REPLACE-end line has no preceding
\* SEPARATOR included.
C19_AsStated ==
    lastIdx = 0 /\ [][lastIdx' >= lastIdx]_vars

(***************************************************************************)
(* C20: the parser state.                                                  *)
(***************************************************************************)
\* C20 as stated: for any patch text the flags inSearch and inReplace are
\* never both true (the parser is in exactly one of Idle, InSearch,
\* InReplace).
C20_AsStated ==
    ~(inSearch /\ inReplace)

(***************************************************************************)
(* C21: a SEPARATOR line outside a SEARCH section.                         *)
(***************************************************************************)
\* C21 as stated: a SEPARATOR line read while the parser is not IN_SEARCH
\* (IDLE or IN_REPLACE) triggers no match resolution, copies no document
\* text to the output and changes no parser state.
C21_AsStated ==
    [][(AtLine /\ line = SEPARATOR /\ ~inSearch)
          => /\ pc' = "scan"
             /\ UNCHANGED <<result, lastIdx, searchContent, inSearch, inReplace,
                            matchStartIdx, matchEndIdx>>]_vars

(***************************************************************************)
(* C22: sentinels act only as whole lines.  A patch line that contains     *)
(* one of the three sentinels as a proper substring (leading or trailing   *)
(* whitespace, extra characters) causes no state transition and is handled *)
(* as a content line of the current state: accumulated while IN_SEARCH,    *)
(* emitted while IN_REPLACE with a resolved match, ignored otherwise.      *)
(***************************************************************************)
\* l contains a sentinel and is not that sentinel alone
NearSentinel(l) ==
    /\ ~IsSentinel(l)
    /\ \E sentinel \in {SEARCH_START, SEPARATOR, REPLACE_END} :
          \E p \in 0 .. Len(l) : Occurs(l, sentinel, p)

C22_SentinelsAreWholeLines ==
    [][(pc = "scan" /\ lineNo <= Len(lines) /\ NearSentinel(lines[lineNo]))
          => /\ pc' = "scan"
             /\ UNCHANGED <<inSearch, inReplace, lastIdx, matchStartIdx, matchEndIdx>>
             /\ searchContent' = IF inSearch THEN searchContent \o lines[lineNo] \o <<NL>>
                                 ELSE searchContent
             /\ result' = IF ~inSearch /\ inReplace /\ matchStartIdx # -1
                          THEN result \o lines[lineNo] \o <<NL>>
                          ELSE result]_vars

\* the REPLACE-end sentinel with a leading space was read inside a REPLACE
\* section and emitted as a replacement line; the section is still open
C22_Witness ==
    /\ pc = "scan"
    /\ lineNo > 1
    /\ lines[lineNo - 1] = <<" ">> \o REPLACE_END
    /\ inReplace
    /\ matchStartIdx # -1
    /\ SubSeq(result, Len(result) - Len(REPLACE_END) - 1, Len(result)) = <<" ">> \o REPLACE_END \o <<NL>>

(***************************************************************************)
(* C23: trailing content.                                                  *)
(***************************************************************************)
\* the characters of the document at the offsets from the cursor to the end
DocumentFrom(cursor) ==
    LET from == Max(cursor, 0)
    IN  [i \in 1 .. Len(original) - from |-> original[from + i]]

\* C23 as stated: after the last patch line the call appends the document
\* text from the cursor to the end of the document, verbatim, if and only
\* if isFinal is true and the cursor is before the document end; a call
\* with isFinal = false returns the buffer as the last patch line left it.
C23_AsStated ==
    [][(pc = "scan" /\ lineNo > Len(lines))
          => /\ pc' = "returned"
             /\ result' = IF isFinal /\ lastIdx < Len(original)
                          THEN result \o DocumentFrom(lastIdx)
                          ELSE result
             /\ outcome' = Returned(result')]_vars

\* what holds when the cursor is a document offset (not -1): the same
\* statement
C23_TrailingContentFromOffset ==
    [][(pc = "scan" /\ lineNo > Len(lines) /\ lastIdx >= 0)
          => /\ pc' = "returned"
             /\ result' = IF isFinal /\ lastIdx < Len(original)
                          THEN result \o DocumentFrom(lastIdx)
                          ELSE result
             /\ outcome' = Returned(result')]_vars

(***************************************************************************)
(* C24: an empty search block resolves to [0, documentLength) whatever the *)
(* cursor and whatever blocks came before it, and never raises; on an      *)
(* empty document the range is [0, 0) and the output of a patch of one     *)
(* such block is just its replacement lines.                               *)
(***************************************************************************)
C24_EmptySearchWholeDocument ==
    /\ (AfterSeparator /\ searchContent = <<>>)
          => /\ pc = "scan"
             /\ matchStartIdx = 0
             /\ matchEndIdx = Len(original)
    /\ \A k \in 1 .. Len(lines) :
          (pc = "returned" /\ original = <<>> /\ SingleEmptySearchBlock(k))
              => outcome = Returned(WithBreaks(SubSeq(lines, 3, k - 1)))

\* an empty search block that follows a resolved block: the cursor is
\* inside the document and the range starts at 0, before it
C24_Witness ==
    /\ AfterSeparator
    /\ pc = "scan"
    /\ searchContent = <<>>
    /\ lastIdx > 0
    /\ lastIdx < Len(original)
    /\ matchStartIdx = 0
    /\ matchEndIdx = Len(original)
    /\ result # <<>>

\* the empty document: range [0, 0), the output is the replacement line
C24_WitnessEmptyDocument ==
    /\ pc = "returned"
    /\ original = <<>>
    /\ matchEndIdx = -1
    /\ lastIdx = 0
    /\ \E k \in 1 .. Len(lines) : SingleEmptySearchBlock(k) /\ k > 3
    /\ outcome.value # <<>>

(***************************************************************************)
(* C25: trimMatch, for every cursor, returns the first candidate line      *)
(* (the lowest line that begins at or after the cursor) from which as many *)
(* document lines as the search block has agree with the search lines      *)
(* after trimming, and no match when there is none; the range starts at    *)
(* the offset where the candidate line begins and ends just past the last  *)
(* compared line (each line's length plus one), so it covers the whole     *)
(* physical lines with their leading and trailing whitespace.              *)
(***************************************************************************)
\* the candidate lines for cursor c: runs of whole lines that begin at or
\* after c and agree with the accumulated search lines after trimming
CandidateLines(c) ==
    {i \in 0 .. Len(DocLines) - 1 :
        LineStart(DocLines, i) >= c /\ TrimmedRun(DocLines, AccumulatedLines, i)}

C25_TrimMatchFirstCandidate ==
    (pc = "scan" /\ searchContent # <<>>)
        => \A c \in 0 .. Len(original) + 1 :
              LET m == trimMatch(original, searchContent, c)
                  n == Len(AccumulatedLines)
                  first == CHOOSE i \in CandidateLines(c) : \A j \in CandidateLines(c) : i <= j
              IN  IF CandidateLines(c) = {} THEN m = NoMatch
                  ELSE /\ m.found
                       /\ m.start = LineStart(DocLines, first)
                       /\ m.end = m.start + Len(WithBreaks(SubSeq(DocLines, first + 1, first + n)))
                       /\ Slice(original, m.start, m.end) \o
                              (IF m.end > Len(original) THEN <<NL>> ELSE <<>>)
                            = WithBreaks(SubSeq(DocLines, first + 1, first + n))

\* from a cursor behind an earlier occurrence, the fallback returns a line
\* that carries trailing whitespace the search line does not have
C25_Witness ==
    /\ pc = "scan"
    /\ searchContent # <<>>
    /\ lastIdx > 0
    /\ CandidateLines(0) # CandidateLines(lastIdx)
    /\ LET m == trimMatch(original, searchContent, lastIdx)
       IN  /\ m.found
           /\ m.end <= Len(original)
           /\ Slice(original, m.start, m.end) # searchContent
           /\ Trim(Slice(original, m.start, m.end - 1)) = Trim(AccumulatedLines[1])

(***************************************************************************)
(* C26: applyDiff is deterministic and keeps no state across calls.  Each  *)
(* of several invocations, whatever their order and interleaving and       *)
(* whether on the same or on different documents, ends with the outcome    *)
(* (output string or failure) that the function of its three arguments     *)
(* gives in isolation; invocations with equal arguments end alike.         *)
(***************************************************************************)
Finished(c) == calls[c].pc \in {"returned", "thrown"}

C27_ReplaceImpliesResolved ==
    [][/\ (pc = "scan" /\ inReplace) => matchStartIdx # -1
       /\ (pc = "scan" /\ lineNo <= Len(lines) /\ ~IsSentinel(lines[lineNo]))
             => /\ result' # result => (inReplace /\ matchStartIdx # -1)
                /\ (inReplace /\ ~inSearch) => result' = result \o lines[lineNo] \o <<NL>>]_vars

\* a replacement line was emitted behind the copied text of a resolved block
C27_Witness ==
    /\ pc = "scan"
    /\ lineNo > 1
    /\ ~IsSentinel(lines[lineNo - 1])
    /\ inReplace
    /\ ~inSearch
    /\ matchStartIdx > 0
    /\ Len(result) > matchStartIdx
    /\ SubSeq(result, matchStartIdx + 1, Len(result)) = lines[lineNo - 1] \o <<NL>>

(***************************************************************************)
(* C28: single-pass construction.  The output buffer is append-only: every *)
(* step of a scan (a consumed patch line, the trailing content at the end) *)
(* leaves a buffer that has the buffer before the step as a prefix, so the *)
(* returned string has every intermediate buffer as a prefix and nothing   *)
(* already emitted is rewritten or removed.                                *)
(***************************************************************************)
IsPrefix(s, t) == Len(s) <= Len(t) /\ SubSeq(t, 1, Len(s)) = s

C28_AppendOnly ==
    [][/\ IsPrefix(result, result')
       /\ pc' = "returned" => (outcome'.value = result' /\ IsPrefix(result, outcome'.value))]_vars

\* a second block was resolved: the text between the two matches was
\* appended behind what the first block had emitted
C28_Witness ==
    /\ AfterSeparator
    /\ pc = "scan"
    /\ lastIdx > 0
    /\ matchStartIdx > lastIdx
    /\ Len(result) > matchStartIdx - lastIdx
    /\ SubSeq(result, Len(result) - (matchStartIdx - lastIdx) + 1, Len(result))
          = Slice(original, lastIdx, matchStartIdx)
    /\ result # Slice(original, 0, matchStartIdx)

(***************************************************************************)
(* C29: patch lines read outside any block (before the first SEARCH        *)
(* marker, between a REPLACE-end and the next SEARCH marker, after the     *)
(* last REPLACE-end) have no effect: a well-formed patch and the same      *)
(* patch with all such non-sentinel lines removed give the same outcome    *)
(* on every document.                                                      *)
(***************************************************************************)
\* line i of a patch lies in a block: a SEARCH marker at or before it has
\* not been closed by a REPLACE-end before it
InBlock(ls, i) ==
    \E j \in 1 .. i :
        /\ ls[j] = SEARCH_START
        /\ \A k \in j .. i - 1 : ls[k] # REPLACE_END

IdleLine(ls, i) ==
    /\ ls[i] \notin {SEARCH_START, SEPARATOR, REPLACE_END}
    /\ ~InBlock(ls, i)

RECURSIVE KeptLines(_, _)
KeptLines(ls, i) ==
    IF i > Len(ls) THEN <<>>
    ELSE (IF IdleLine(ls, i) THEN <<>> ELSE <<ls[i]>>) \o KeptLines(ls, i + 1)

WithoutIdleLines(text) ==
    LET kept == KeptLines(Split(text), 1)
    IN  IF kept = <<>> THEN <<>> ELSE JoinWith(kept, <<NL>>)

C29_IdleLinesIgnored ==
    (pc \in {"returned", "thrown"} /\ patchText \in WellFormedPatches \cup IdleLinePatches)
        => outcome = applyDiff(WithoutIdleLines(patchText), documentText, isFinal)

\* a patch with lines before, between and after its blocks was applied and
\* changed the document
C29_Witness ==
    /\ pc = "returned"
    /\ patchText \in IdleLinePatches
    /\ Len(WithoutIdleLines(patchText)) + 6 < Len(patchText)
    /\ lastIdx > 0
    /\ outcome.value # original

(***************************************************************************)
(* C30: when the REPLACE-end of a block with a non-empty search that was   *)
(* resolved (exactly or by trimming) is handled, the cursor lands on a     *)
(* line boundary of the document: it is 0, or the character before it is a *)
(* line break, or it is the document's length plus one; and the walk of    *)
(* trimMatch from that cursor stops at the line that begins exactly there. *)
(***************************************************************************)
OnLineBoundary(cursor) ==
    \/ cursor = 0
    \/ cursor \in 1 .. Len(original) /\ original[cursor] = NL
    \/ cursor = Len(original) + 1

\* the 0-based line at which trimMatch starts to look, for a cursor
WalkLine(cursor) == StartLineNum(DocLines, cursor, 0, 0)

ResolvedBlockEnds ==
    /\ pc = "scan"
    /\ lineNo <= Len(lines)
    /\ lines[lineNo] = REPLACE_END
    /\ inReplace
    /\ matchStartIdx # -1
    /\ searchContent # <<>>

C30_CursorOnLineBoundary ==
    [][ResolvedBlockEnds =>
          /\ lastIdx' = matchEndIdx
          /\ OnLineBoundary(lastIdx')
          /\ LineStart(DocLines, WalkLine(lastIdx')) = lastIdx']_vars

\* the cursor stands behind a block that matched in the middle of the
\* document, with document text still ahead of it, and the next block is
\* being read
C30_Witness ==
    /\ pc = "scan"
    /\ lineNo > 1
    /\ lines[lineNo - 1] = SEARCH_START
    /\ searchContent = <<>>
    /\ ~inReplace
    /\ lastIdx \in 1 .. Len(original) - 1
    /\ original[lastIdx] = NL
    /\ WalkLine(lastIdx) > 0

====
